---- MODULE Spec2Model ----
(***************************************************************************)
(* Model of the processing queue of the Process tab (gui/process_tab.py)   *)
(* and of the part of FFmpegHandler.process_video that the queue observes: *)
(* its progress callbacks, its reads of the configuration and its outcome. *)
(*                                                                         *)
(* Threads.  Thread 0 is the Qt UI thread; it runs one slot at a time.     *)
(* Threads 1..MaxWorkers are the daemon threads started by process_item.   *)
(* Python switches threads between bytecodes, so every statement that      *)
(* reads or writes self.processing_queue or self.currently_processing is   *)
(* a step of its own.  Queue indices are 0-based as in the source.         *)
(***************************************************************************)
EXTENDS Integers, Sequences, FiniteSets, TLC

\* ------------------------------------------------------------------ bounds
MaxPaths == 2
MaxWorkers == 1
MaxLines == 1
MaxCalls == 3
MaxFifoPaths == 3

Paths == 1..MaxPaths
Workers == 1..MaxWorkers
UI == 0
Threads == {UI} \cup Workers

\* The channel combo offers "No Channel (Generic)" with data "" and the
\* configured channels; one configured channel is modelled.
Channels == {"", "ch1"}

\* --------------------------------------------------------------- job record
None == 0
NoError == ""
Statuses == {"Queued", "Processing", "Completed", "Failed"}

\* The configuration values the model follows: the filter-graph keys
\* (sharpness in tenths, speed_randomization and zoom_factor in hundredths),
\* one encoder option and the watermark of channel ch1.
DefaultConfig ==
    [denoise_strength |-> 3, crf |-> 23, watermark |-> "wm.png",
     speed_randomization |-> 5, sharpness |-> 15, zoom_factor |-> 102,
     pixel_shift |-> 1]
\* What a run of process_video has taken from the configuration and put in
\* its command: nothing yet.  "speed" is whether the setpts stage is in the
\* graph, "cap" the value of the -t option, -1 while the command has none,
\* "wm_input" whether the command has the watermark as its second input and
\* "map" the label of its first -map option.
Unread ==
    [denoise_strength |-> -1, crf |-> -1, watermark |-> "?", overlay |-> FALSE,
     speed |-> FALSE, cap |-> -1, wm_input |-> FALSE, map |-> ""]

\* queue_item of add_video.  "error" is NoError while the dict has no "error"
\* key.  "snap" is a history field, not a key of the dict: the configuration
\* at the moment add_video accepted the job.
QueueItem(video_path, channel_id, cfg) ==
    [video_path |-> video_path, channel_id |-> channel_id, status |-> "Queued",
     progress |-> 0, output_path |-> None, error |-> NoError, snap |-> cfg]

NoItem ==
    [video_path |-> None, channel_id |-> "", status |-> "", progress |-> 0,
     output_path |-> None, error |-> NoError, snap |-> Unread]

VARIABLES
    processing_queue,      \* self.processing_queue, a sequence of job records
    currently_processing,  \* self.currently_processing
    th,                    \* per thread: position and locals
    config,                \* Config.config, the keys DefaultConfig names
    calls                  \* number of slots the UI thread has run so far

vars == <<processing_queue, currently_processing, th, config, calls>>

\* ------------------------------------------------------------ list helpers
InRange(index) == index >= 0 /\ index < Len(processing_queue)
At(index) == processing_queue[index + 1]
Pop(q, index) == SubSeq(q, 1, index) \o SubSeq(q, index + 2, Len(q))
Insert(q, index, item) ==
    IF index >= Len(q) THEN Append(q, item)
    ELSE SubSeq(q, 1, index) \o <<item>> \o SubSeq(q, index + 1, Len(q))
SetKey(q, index, key, value) == [q EXCEPT ![index + 1][key] = value]

Indices(q) == 0..(Len(q) - 1)
Min(S) == CHOOSE x \in S : \A y \in S : x <= y
QueuedIndices(q) == {i \in Indices(q) : q[i + 1].status = "Queued"}
ProcessingIndices(q) == {i \in Indices(q) : q[i + 1].status = "Processing"}

\* ---------------------------------------------------------- thread records
\* "path" and "was" are history fields of a slot on the UI thread: the job
\* remove_item or retry_item was called on, and its status at the call.
Idle ==
    [pc |-> "idle", index |-> -1, held |-> NoItem, path |-> None, was |-> "",
     ch |-> "", snap |-> Unread, exc |-> NoError, dur |-> 0, lines |-> 0,
     used |-> Unread, out |-> "none", thumb |-> "none",
     filter_parts |-> <<>>, current_input |-> "", current_output |-> ""]

At_(t, pc) == th[t].pc = pc
\* A slot starts on the UI thread when it is between slots.
Called == At_(UI, "idle") /\ calls < MaxCalls
Goto(t, pc) == th' = [th EXCEPT ![t].pc = pc]
Finish(t) == th' = [th EXCEPT ![t] = Idle]

\* update_queue_display: one row per job, read from the job record.
Row(item) ==
    [video_path |-> item.video_path, status |-> item.status,
     progress |-> item.progress, output_path |-> item.output_path,
     error |-> item.error]
Rows(q) == [i \in 1..Len(q) |-> Row(q[i])]

TypeOK ==
    /\ currently_processing \in BOOLEAN
    /\ \A i \in 1..Len(processing_queue) :
          /\ processing_queue[i].video_path \in 1..MaxFifoPaths
          /\ processing_queue[i].status \in Statuses
          /\ processing_queue[i].progress \in Int
    /\ \A t \in Threads : th[t].index \in -1..MaxFifoPaths

Init ==
    /\ processing_queue = <<>>
    /\ currently_processing = FALSE
    /\ th = [t \in Threads |-> Idle]
    /\ config = DefaultConfig
    /\ calls = 0


\* ------------------------------------------------- exceptions in a handler
\* An exception that leaves a slot on the UI thread is reported by Qt and the
\* slot ends; one that leaves the target of a worker thread ends the thread.
Raise(t) == Finish(t)

\* _update_progress(index, progress), the progress_callback of process_video
UpdateProgress(q, index, progress) ==
    IF index >= 0 /\ index < Len(q) THEN SetKey(q, index, "progress", progress)
    ELSE q

\* ------------------------------------------------------------- add_video
\* an add_video that enqueues a video whose file is missing
add_video_missing_enqueues(video_path) ==
    /\ Called
    /\ calls' = calls + 1
    /\ processing_queue' =
          IF \E i \in Indices(processing_queue) : At(i).video_path = video_path
          THEN processing_queue
          ELSE Append(processing_queue, QueueItem(video_path, "", config))
    /\ th' = [th EXCEPT ![UI].pc = "av_missing", ![UI].path = video_path]
    /\ UNCHANGED <<currently_processing, config>>

\* Lines 451-454: os.path.exists(video_path) is false: the "File Not Found"
\* warning box opens and add_video returns when it is closed; nothing is
\* added.  th[UI].path notes the path the slot was called with.
add_video_missing(video_path) ==
    /\ Called
    /\ calls' = calls + 1
    /\ th' = [th EXCEPT ![UI].pc = "av_missing", ![UI].path = video_path]
    /\ UNCHANGED <<processing_queue, currently_processing, config>>

add_video_missing_close ==
    /\ At_(UI, "av_missing")
    /\ Finish(UI)
    /\ UNCHANGED <<processing_queue, currently_processing, config, calls>>

\* Lines 456-464: a failed probe is reported and nothing is added.
add_video_rejected ==
    /\ At_(UI, "idle")
    /\ UNCHANGED vars

\* Lines 474-495: a path some job of the queue already has opens the
\* "Already Queued" box and nothing is added (475-482; th[UI].path notes the
\* path the slot was called with); any other path is appended as a Queued
\* job (485-495).
add_video(video_path, channel_id) ==
    /\ Called
    /\ calls' = calls + 1
    /\ IF \E i \in Indices(processing_queue) : At(i).video_path = video_path
       THEN /\ th' = [th EXCEPT ![UI].pc = "av_dup", ![UI].path = video_path]
            /\ UNCHANGED processing_queue
       ELSE /\ processing_queue' =
                  Append(processing_queue, QueueItem(video_path, channel_id, config))
            /\ Goto(UI, "av_check")
    /\ UNCHANGED <<currently_processing, config>>

\* Line 482: the box is closed and add_video returns.
add_video_duplicate_close ==
    /\ At_(UI, "av_dup")
    /\ Finish(UI)
    /\ UNCHANGED <<processing_queue, currently_processing, config, calls>>

\* Line 501: if not self.currently_processing and len(self.processing_queue) == 1
add_video_autostart ==
    /\ At_(UI, "av_check")
    /\ IF ~currently_processing /\ Len(processing_queue) = 1
       THEN Goto(UI, "pn")
       ELSE Finish(UI)
    /\ UNCHANGED <<processing_queue, currently_processing, config, calls>>

\* ----------------------------------------------------------- process_next
\* Line 687: if self.currently_processing: return
process_next(t) ==
    /\ At_(t, "pn")
    /\ IF currently_processing THEN Finish(t) ELSE Goto(t, "pn_find")
    /\ UNCHANGED <<processing_queue, currently_processing, config, calls>>

\* a process_next that takes the last item whose status is "Queued"
process_next_find_last(t) ==
    /\ At_(t, "pn_find")
    /\ IF QueuedIndices(processing_queue) = {}
       THEN Finish(t)
       ELSE th' = [th EXCEPT ![t].pc = "pi_bounds",
                             ![t].index = Len(processing_queue) - 1]
    /\ UNCHANGED <<processing_queue, currently_processing, config, calls>>

\* Lines 691-694: the first item whose status is "Queued"
process_next_find(t) ==
    /\ At_(t, "pn_find")
    /\ IF QueuedIndices(processing_queue) = {}
       THEN Finish(t)
       ELSE th' = [th EXCEPT ![t].pc = "pi_bounds",
                             ![t].index = Min(QueuedIndices(processing_queue))]
    /\ UNCHANGED <<processing_queue, currently_processing, config, calls>>

\* ----------------------------------------------------------- process_all
process_all ==
    /\ At_(UI, "idle")
    /\ IF processing_queue = <<>>
       THEN UNCHANGED <<th, calls>>
       ELSE Called /\ calls' = calls + 1 /\ Goto(UI, "pn")
    /\ UNCHANGED <<processing_queue, currently_processing, config>>

\* ---------------------------------------------------------- process_item
\* A click on a row's Process button: process_item(index), lines 589-590.
process_item_call(index) ==
    /\ At_(UI, "idle")
    /\ IF InRange(index)
       THEN /\ Called /\ calls' = calls + 1
            /\ th' = [th EXCEPT ![UI].pc = "pi_cp", ![UI].index = index]
       ELSE UNCHANGED <<th, calls>>
    /\ UNCHANGED <<processing_queue, currently_processing, config>>

\* Lines 589-590 when process_item is called by process_next or retry_item
process_item_bounds(t) ==
    /\ At_(t, "pi_bounds")
    /\ IF InRange(th[t].index) THEN Goto(t, "pi_cp") ELSE Finish(t)
    /\ UNCHANGED <<processing_queue, currently_processing, config, calls>>

\* Line 593: if self.currently_processing
process_item_busy(t) ==
    /\ At_(t, "pi_cp")
    /\ IF currently_processing THEN Goto(t, "pi_pop") ELSE Goto(t, "pi_set")
    /\ UNCHANGED <<processing_queue, currently_processing, config, calls>>

\* Line 595: item = self.processing_queue.pop(index)
process_item_pop(t) ==
    /\ At_(t, "pi_pop")
    /\ IF InRange(th[t].index)
       THEN /\ processing_queue' = Pop(processing_queue, th[t].index)
            /\ th' = [th EXCEPT ![t].pc = "pi_ins", ![t].held = At(th[t].index)]
       ELSE /\ Raise(t)
            /\ UNCHANGED processing_queue
    /\ UNCHANGED <<currently_processing, config, calls>>

\* Lines 598-608: insert right after the first "Processing" item, else at the
\* front; then update_queue_display.
process_item_insert(t) ==
    /\ At_(t, "pi_ins")
    /\ processing_queue' =
          IF ProcessingIndices(processing_queue) # {}
          THEN Insert(processing_queue,
                      Min(ProcessingIndices(processing_queue)) + 1, th[t].held)
          ELSE Insert(processing_queue, 0, th[t].held)
    /\ Finish(t)
    /\ UNCHANGED <<currently_processing, config, calls>>

\* Line 611: self.currently_processing = True
process_item_set_busy(t) ==
    /\ At_(t, "pi_set")
    /\ currently_processing' = TRUE
    /\ Goto(t, "pi_status")
    /\ UNCHANGED <<processing_queue, config, calls>>

\* A store self.processing_queue[index][key] = value by thread t: IndexError
\* when the index is past the end of the list.
Store(t, key, value, next) ==
    IF InRange(th[t].index)
    THEN /\ processing_queue' = SetKey(processing_queue, th[t].index, key, value)
         /\ Goto(t, next)
    ELSE /\ Raise(t)
         /\ UNCHANGED processing_queue

\* Line 614: self.processing_queue[index]["status"] = "Processing"
process_item_status(t) ==
    /\ At_(t, "pi_status")
    /\ Store(t, "status", "Processing", "pi_prog")
    /\ UNCHANGED <<currently_processing, config, calls>>

\* Line 615: self.processing_queue[index]["progress"] = 0
process_item_progress(t) ==
    /\ At_(t, "pi_prog")
    /\ Store(t, "progress", 0, "pi_start")
    /\ UNCHANGED <<currently_processing, config, calls>>

\* Lines 616-623: update_queue_display, then the worker thread is started.
\* process_item and its callers return right after, so a worker thread that
\* starts its successor ends with that step and the successor takes its
\* slot; the UI thread needs a free slot.
FreeWorkers(t) ==
    IF t \in Workers THEN {t} ELSE {w \in Workers : th[w].pc = "idle"}
process_item_start(t) ==
    /\ At_(t, "pi_start")
    /\ FreeWorkers(t) # {}
    /\ th' = [[th EXCEPT ![t] = Idle] EXCEPT
                 ![Min(FreeWorkers(t))] =
                     [Idle EXCEPT !.pc = "w_bounds", !.index = th[t].index]]
    /\ UNCHANGED <<processing_queue, currently_processing, config, calls>>


\* ------------------------------------------------- _process_video_thread
\* Lines 627-629: an index outside the queue clears the flag and returns.
worker_bounds(w) ==
    /\ At_(w, "w_bounds")
    /\ IF InRange(th[w].index)
       THEN /\ Goto(w, "w_item")
            /\ UNCHANGED currently_processing
       ELSE /\ currently_processing' = FALSE
            /\ Finish(w)
    /\ UNCHANGED <<processing_queue, config, calls>>

\* Line 631: item = self.processing_queue[index], outside the try block; the
\* arguments item["video_path"], item["channel_id"] of lines 636-637 are read
\* from that dict.
worker_item(w) ==
    /\ At_(w, "w_item")
    /\ IF InRange(th[w].index)
       THEN th' = [th EXCEPT ![w].pc = "pv_start",
                             ![w].path = At(th[w].index).video_path,
                             ![w].ch = At(th[w].index).channel_id,
                             ![w].snap = At(th[w].index).snap]
       ELSE Raise(w)
    /\ UNCHANGED <<processing_queue, currently_processing, config, calls>>

\* ----------------------------------------- FFmpegHandler.process_video
\* _get_video_duration: the probed duration in seconds, or None (NoDuration)
\* when the probe fails; a probe can also answer 0.0.  "if duration" is false
\* for None and for 0.0.
NoDuration == -1
Durations == {NoDuration, 0, 2}
Truthy(duration) == duration # NoDuration /\ duration # 0

\* Lines 306-312: total_seconds of a status line, hours * 3600 + minutes * 60
\* + seconds with hours = int(time_parts[0]); the encoder prints a negative
\* hours field (time=-577014:32:22.77) while it has no timestamp yet.
Elapsed == {-10, 1, 2}

\* Lines 315-321: int(min(90, 60 + (total_seconds / duration) * 30)), or with
\* the nominal 100 seconds when "if duration" is false.  int() truncates
\* towards zero.
NominalDuration == 100
EncodeProgress(total_seconds, duration) ==
    LET d == IF Truthy(duration) THEN duration ELSE NominalDuration
        n == 60 * d + total_seconds * 30
    IN  IF n >= 90 * d THEN 90
        ELSE IF n >= 0 THEN n \div d
        ELSE 0 - ((0 - n) \div d)

Callback(w, progress) ==
    processing_queue' = UpdateProgress(processing_queue, th[w].index, progress)

\* Lines 91-123: the input must exist; the duration is probed; the channel's
\* watermark is read from the configuration; progress_callback(5).
pv_start(w) ==
    /\ At_(w, "pv_start")
    /\ \E exists \in BOOLEAN :
          IF ~exists
          THEN /\ th' = [th EXCEPT ![w].pc = "w_fail_status",
                                   ![w].exc = "FileNotFoundError"]
               /\ UNCHANGED processing_queue
          ELSE \E d \in Durations :
               /\ th' = [th EXCEPT ![w].pc = "pv_10", ![w].dur = d,
                            ![w].used.watermark =
                                IF th[w].ch # "" THEN config.watermark ELSE ""]
               /\ Callback(w, 5)
    /\ UNCHANGED <<currently_processing, config, calls>>

\* ---------------------------------------------------------- filter graph
\* The stages of the graph in the order of the code: scale/pad (134), eq
\* saturation (145), eq brightness (153), hqdn3d (166), unsharp (173), overlay
\* (185), setpts (199), scale by zoom_factor (206), crop (215).
StageOrder ==
    <<"canvas", "saturation", "brightness", "denoise", "sharpen", "overlay",
      "speed", "zoom", "pixel_shift">>

\* a builder that always sharpens
IncludedSharpenAlways(stage, processing, overlay) ==
    CASE stage = "denoise" -> processing.denoise_strength > 0
      [] stage = "overlay" -> overlay
      [] stage = "speed" -> processing.speed_randomization > 0
      [] stage = "zoom" -> processing.zoom_factor > 100
      [] stage = "pixel_shift" -> processing.pixel_shift > 0
      [] OTHER -> TRUE

\* The condition under which a stage is appended: lines 165, 172, 182, 196,
\* 205 and 212; the first three stages are appended unconditionally.
\* "overlay" is the outcome of "watermark_path and os.path.exists(...)".
Included(stage, processing, overlay) ==
    CASE stage = "denoise" -> processing.denoise_strength > 0
      [] stage = "sharpen" -> processing.sharpness > 0
      [] stage = "overlay" -> overlay
      [] stage = "speed" -> processing.speed_randomization > 0
      [] stage = "zoom" -> processing.zoom_factor > 100
      [] stage = "pixel_shift" -> processing.pixel_shift > 0
      [] OTHER -> TRUE

\* a builder that names every next output "v2"
NextLabelSame(stage) == "v2"

\* The value current_output is given after a stage has been appended (lines
\* 136, 147, 155, 168, 175, 187, 201, 208, 217).
NextLabel(stage) ==
    CASE stage = "canvas" -> "v2"
      [] stage = "saturation" -> "v3"
      [] stage = "brightness" -> "v4"
      [] stage = "denoise" -> "v5"
      [] stage = "sharpen" -> "v6"
      [] stage = "overlay" -> "v7"
      [] stage = "speed" -> "v8"
      [] stage = "zoom" -> "v9"
      [] OTHER -> "vout"

\* a builder that leaves current_input as it was
AppendStageKeepsInput(r, stage) ==
    [r EXCEPT !.filter_parts =
                  Append(@, [stage |-> stage, input |-> r.current_input,
                             output |-> r.current_output]),
              !.current_output = NextLabel(stage)]

\* filter_parts.append(f"[{current_input}]...[{current_output}]");
\* current_input = current_output; current_output = the next label.
\* r is the record of the thread that runs process_video.
AppendStage(r, stage) ==
    [r EXCEPT !.filter_parts =
                  Append(@, [stage |-> stage, input |-> r.current_input,
                             output |-> r.current_output]),
              !.current_input = r.current_output,
              !.current_output = NextLabel(stage)]

\* One "if <condition>: append" block of the builder
Stage(r, stage, processing, overlay) ==
    IF Included(stage, processing, overlay) THEN AppendStage(r, stage) ELSE r

\* Lines 127-140: filter_parts = [], current_input = "0:v", current_output =
\* "v1"; canvas stage, progress_callback(10)
pv_10(w) ==
    /\ At_(w, "pv_10")
    /\ Callback(w, 10)
    /\ th' = [th EXCEPT ![w] =
                 [Stage([th[w] EXCEPT !.filter_parts = <<>>,
                                      !.current_input = "0:v",
                                      !.current_output = "v1"],
                        "canvas", config, FALSE)
                  EXCEPT !.pc = "pv_20"]]
    /\ UNCHANGED <<currently_processing, config, calls>>

\* Lines 142-159: color and brightness stages, progress_callback(20)
pv_20(w) ==
    /\ At_(w, "pv_20")
    /\ Callback(w, 20)
    /\ th' = [th EXCEPT ![w] =
                 [Stage(Stage(th[w], "saturation", config, FALSE),
                        "brightness", config, FALSE)
                  EXCEPT !.pc = "pv_30"]]
    /\ UNCHANGED <<currently_processing, config, calls>>

\* Lines 163-182: processing.get("denoise_strength") and "sharpness" are
\* read from the live dict (164, 171) and their stages appended;
\* progress_callback(30); the overlay stage is taken when a watermark is
\* configured and its file exists (182).
pv_30(w) ==
    /\ At_(w, "pv_30")
    /\ Callback(w, 30)
    /\ \E wm_exists \in BOOLEAN :
          th' = [th EXCEPT ![w] =
                   [Stage(Stage(th[w], "denoise", config, FALSE),
                          "sharpen", config, FALSE)
                    EXCEPT !.used.denoise_strength = config.denoise_strength,
                           !.used.overlay = th[w].used.watermark # "" /\ wm_exists,
                           !.pc = IF th[w].used.watermark # "" /\ wm_exists
                                  THEN "pv_40" ELSE "pv_50"]]
    /\ UNCHANGED <<currently_processing, config, calls>>

\* Lines 183-191: overlay stage, progress_callback(40)
pv_40(w) ==
    /\ At_(w, "pv_40")
    /\ Callback(w, 40)
    /\ th' = [th EXCEPT ![w] =
                 [Stage(th[w], "overlay", config, th[w].used.overlay)
                  EXCEPT !.pc = "pv_50"]]
    /\ UNCHANGED <<currently_processing, config, calls>>

\* Lines 193-221: protection stages: the setpts stage is added when
\* processing.get("speed_randomization") > 0 (195-201), the zoom stage when
\* zoom_factor > 1.0 (204-208), the crop stage when pixel_shift > 0
\* (211-217); progress_callback(50)
pv_50(w) ==
    /\ At_(w, "pv_50")
    /\ Callback(w, 50)
    /\ th' = [th EXCEPT ![w] =
                 [Stage(Stage(Stage(th[w], "speed", config, FALSE),
                              "zoom", config, FALSE),
                        "pixel_shift", config, FALSE)
                  EXCEPT !.pc = "pv_60",
                         !.used.speed = config.speed_randomization > 0]]
    /\ UNCHANGED <<currently_processing, config, calls>>

\* a command builder that caps the duration only with the setpts stage
DurationCapWithSpeed(duration, speed) ==
    IF speed /\ Truthy(duration) THEN duration ELSE NoDuration

\* Lines 244-247: "-t", str(duration) is added when "if duration" holds; the
\* stages of the graph play no part in it.
DurationCap(duration, speed) ==
    IF Truthy(duration) THEN duration ELSE NoDuration

\* Lines 224-274: the command is built: the watermark is a second input
\* when it is configured and os.path.exists(watermark_path) holds now (234);
\* -map names current_input (240); the -t option (244-247);
\* processing.get("crf") (256); progress_callback(60)
pv_60(w) ==
    /\ At_(w, "pv_60")
    /\ Callback(w, 60)
    /\ \E wm_exists \in BOOLEAN :
          th' = [th EXCEPT ![w].pc = "pv_run", ![w].used.crf = config.crf,
                           ![w].used.cap = DurationCap(th[w].dur, th[w].used.speed),
                           ![w].used.wm_input =
                               th[w].used.watermark # "" /\ wm_exists,
                           ![w].used.map = th[w].current_input]
    /\ UNCHANGED <<currently_processing, config, calls>>

\* Lines 295-325: a status line with time= reports the encode progress
pv_line(w) ==
    /\ At_(w, "pv_run")
    /\ th[w].lines < MaxLines
    /\ \E total_seconds \in Elapsed :
          Callback(w, EncodeProgress(total_seconds, th[w].dur))
    /\ th' = [th EXCEPT ![w].lines = @ + 1]
    /\ UNCHANGED <<currently_processing, config, calls>>

\* process_video is left, by return or by raise: its locals are gone.
Left(r) ==
    [r EXCEPT !.used = Unread, !.dur = 0, !.lines = 0, !.filter_parts = <<>>,
              !.current_input = "", !.current_output = ""]

\* Lines 357-379: _generate_thumbnail returns the thumbnail's path, or None
\* when the output is missing (359-360) or the extraction raises (377-379);
\* no exception leaves it.
ThumbnailOutcomes == {"made", "failed"}

\* a process_video that lets a thumbnail failure out as an error
pv_return_thumbnail_raises(w) ==
    /\ At_(w, "pv_run")
    /\ \E thumbnail \in ThumbnailOutcomes :
          IF thumbnail = "failed"
          THEN /\ th' = [th EXCEPT ![w] =
                         [Left(th[w]) EXCEPT !.pc = "w_fail_status",
                                             !.exc = "RuntimeError",
                                             !.thumb = thumbnail]]
               /\ UNCHANGED processing_queue
          ELSE /\ th' = [th EXCEPT ![w] =
                         [Left(th[w]) EXCEPT !.pc = "w_ok_status",
                                             !.out = "whole",
                                             !.thumb = thumbnail]]
               /\ Callback(w, 100)
    /\ UNCHANGED <<currently_processing, config, calls>>

\* Lines 328-344: return code 0, _generate_thumbnail(output_path) whose
\* result is not looked at (337), progress_callback(100), return
\* output_path; the output file is whole.
pv_return(w) ==
    /\ At_(w, "pv_run")
    /\ Callback(w, 100)
    /\ \E thumbnail \in ThumbnailOutcomes :
          th' = [th EXCEPT ![w] = [Left(th[w]) EXCEPT !.pc = "w_ok_status",
                                                     !.out = "whole",
                                                     !.thumb = thumbnail]]
    /\ UNCHANGED <<currently_processing, config, calls>>

\* Lines 333-334 and 346-355: a non-zero return code raises RuntimeError.
\* The handler removes the output file if os.path.exists(output_path); an
\* os.remove that raises is passed over by "except: pass" (350-354); then the
\* error is re-raised.
pv_raise(w) ==
    /\ At_(w, "pv_run")
    /\ \E exists \in BOOLEAN, removed \in BOOLEAN :
          th' = [th EXCEPT ![w] =
                   [Left(th[w]) EXCEPT !.pc = "w_fail_status",
                                       !.exc = "RuntimeError",
                                       !.out = IF exists /\ ~removed
                                               THEN "partial" ELSE "none"]]
    /\ UNCHANGED <<processing_queue, currently_processing, config, calls>>

\* --------------------------------- _process_video_thread, after the encode
\* A store in the try block: IndexError is caught by "except Exception".
TryStore(w, key, value, next) ==
    IF InRange(th[w].index)
    THEN /\ processing_queue' = SetKey(processing_queue, th[w].index, key, value)
         /\ Goto(w, next)
    ELSE /\ th' = [th EXCEPT ![w].pc = "w_fail_status", ![w].exc = "IndexError"]
         /\ UNCHANGED processing_queue

\* A store in the except block: IndexError leaves the block; the finally
\* block still runs, then the thread ends.
ExceptStore(w, key, value, next) ==
    IF InRange(th[w].index)
    THEN /\ processing_queue' = SetKey(processing_queue, th[w].index, key, value)
         /\ Goto(w, next)
    ELSE /\ Goto(w, "w_fin")
         /\ UNCHANGED processing_queue

\* Line 642: self.processing_queue[index]["status"] = "Completed"
worker_ok_status(w) ==
    /\ At_(w, "w_ok_status")
    /\ TryStore(w, "status", "Completed", "w_ok_prog")
    /\ UNCHANGED <<currently_processing, config, calls>>

\* Line 643: self.processing_queue[index]["progress"] = 100
worker_ok_progress(w) ==
    /\ At_(w, "w_ok_prog")
    /\ TryStore(w, "progress", 100, "w_ok_out")
    /\ UNCHANGED <<currently_processing, config, calls>>

\* Lines 644-647: ["output_path"] = output_path, then update_queue_display.
\* The output path is named after the input: it is modelled by the input's id.
worker_ok_output(w) ==
    /\ At_(w, "w_ok_out")
    /\ TryStore(w, "output_path", th[w].path, "w_fin")
    /\ UNCHANGED <<currently_processing, config, calls>>

\* Line 651: self.processing_queue[index]["status"] = "Failed"
worker_fail_status(w) ==
    /\ At_(w, "w_fail_status")
    /\ ExceptStore(w, "status", "Failed", "w_fail_prog")
    /\ UNCHANGED <<currently_processing, config, calls>>

\* Line 652: self.processing_queue[index]["progress"] = 0
worker_fail_progress(w) ==
    /\ At_(w, "w_fail_prog")
    /\ ExceptStore(w, "progress", 0, "w_fail_err")
    /\ UNCHANGED <<currently_processing, config, calls>>

\* Line 653: self.processing_queue[index]["error"] = str(e)
worker_fail_error(w) ==
    /\ At_(w, "w_fail_err")
    /\ ExceptStore(w, "error", th[w].exc, "w_fin")
    /\ UNCHANGED <<currently_processing, config, calls>>

\* Line 668: self.currently_processing = False
worker_finally(w) ==
    /\ At_(w, "w_fin")
    /\ currently_processing' = FALSE
    /\ Goto(w, "w_fin_q")
    /\ UNCHANGED <<processing_queue, config, calls>>

\* Lines 671-673: if any item is "Queued": self.process_next()
worker_chain(w) ==
    /\ At_(w, "w_fin_q")
    /\ IF QueuedIndices(processing_queue) # {}
       THEN th' = [th EXCEPT ![w] = [Idle EXCEPT !.pc = "pn"]]
       ELSE Finish(w)
    /\ UNCHANGED <<processing_queue, currently_processing, config, calls>>

\* ------------------------------------------------------------ remove_item
\* Lines 707-713: the index and the status are checked.  th[UI].path notes,
\* as history, which job the check looked at.
remove_item_call(index) ==
    /\ At_(UI, "idle")
    /\ IF InRange(index) /\ At(index).status \in {"Queued", "Failed", "Completed"}
       THEN /\ Called /\ calls' = calls + 1
            /\ th' = [th EXCEPT ![UI].pc = "rm_pop", ![UI].index = index,
                                  ![UI].path = At(index).video_path]
       ELSE UNCHANGED <<th, calls>>
    /\ UNCHANGED <<processing_queue, currently_processing, config>>

\* Lines 716-717: self.processing_queue.pop(index); update_queue_display
remove_item_pop ==
    /\ At_(UI, "rm_pop")
    /\ IF InRange(th[UI].index)
       THEN /\ processing_queue' = Pop(processing_queue, th[UI].index)
       ELSE UNCHANGED processing_queue
    /\ Finish(UI)
    /\ UNCHANGED <<currently_processing, config, calls>>

\* ------------------------------------------------------------- retry_item
\* Lines 721-722: only the index is checked
retry_item_call(index) ==
    /\ At_(UI, "idle")
    /\ IF InRange(index)
       THEN /\ Called /\ calls' = calls + 1
            /\ th' = [th EXCEPT ![UI].pc = "rt_status", ![UI].index = index,
                                  ![UI].path = At(index).video_path,
                                  ![UI].was = At(index).status]
       ELSE UNCHANGED <<th, calls>>
    /\ UNCHANGED <<processing_queue, currently_processing, config>>

\* Line 725: self.processing_queue[index]["status"] = "Queued"
retry_item_status ==
    /\ At_(UI, "rt_status")
    /\ Store(UI, "status", "Queued", "rt_prog")
    /\ UNCHANGED <<currently_processing, config, calls>>

\* Line 726: self.processing_queue[index]["progress"] = 0
retry_item_progress ==
    /\ At_(UI, "rt_prog")
    /\ Store(UI, "progress", 0, "rt_err")
    /\ UNCHANGED <<currently_processing, config, calls>>

\* retry_item that leaves the error of the failed run on the job
retry_item_error_kept ==
    /\ At_(UI, "rt_err")
    /\ Goto(UI, "rt_cp")
    /\ UNCHANGED <<processing_queue, currently_processing, config, calls>>

\* Lines 727-730: .pop("error", None); update_queue_display
retry_item_error ==
    /\ At_(UI, "rt_err")
    /\ Store(UI, "error", NoError, "rt_cp")
    /\ UNCHANGED <<currently_processing, config, calls>>

\* Lines 733-734: if not self.currently_processing: self.process_item(index)
retry_item_dispatch ==
    /\ At_(UI, "rt_cp")
    /\ IF currently_processing THEN Finish(UI) ELSE Goto(UI, "pi_bounds")
    /\ UNCHANGED <<processing_queue, currently_processing, config, calls>>

\* ------------------------------------------------------------ cancel_item
\* Lines 736-742: the "Not Implemented" message box opens, whatever the index;
\* the box runs its own event loop until it is closed.
cancel_item(index) ==
    /\ Called
    /\ calls' = calls + 1
    /\ th' = [th EXCEPT ![UI].pc = "cx_msg", ![UI].index = index]
    /\ UNCHANGED <<processing_queue, currently_processing, config>>

\* a cancel_item that gives up the active slot when its box is closed
cancel_item_close_stops ==
    /\ At_(UI, "cx_msg")
    /\ currently_processing' = FALSE
    /\ Finish(UI)
    /\ UNCHANGED <<processing_queue, config, calls>>

\* Line 742: the box is closed and cancel_item returns
cancel_item_close ==
    /\ At_(UI, "cx_msg")
    /\ Finish(UI)
    /\ UNCHANGED <<processing_queue, currently_processing, config, calls>>

\* ------------------------------------------------------------ clear_queue
\* Lines 747-762: refused while the flag is set; else the confirmation
\* dialog opens, which runs its own event loop.
clear_queue_call ==
    /\ At_(UI, "idle")
    /\ IF currently_processing
       THEN UNCHANGED <<th, calls>>
       ELSE Called /\ calls' = calls + 1 /\ Goto(UI, "cq_ask")
    /\ UNCHANGED <<processing_queue, currently_processing, config>>

\* Lines 764-767: on Yes the queue is replaced by an empty list
clear_queue_reply ==
    /\ At_(UI, "cq_ask")
    /\ \E yes \in BOOLEAN :
          IF yes
          THEN /\ processing_queue' = <<>>
          ELSE UNCHANGED processing_queue
    /\ Finish(UI)
    /\ UNCHANGED <<currently_processing, config, calls>>

\* ------------------------------------------- update_queue_display (timer)
\* Lines 337-340: the 500 ms timer fires on the UI thread when it is in an
\* event loop: between slots, or inside a dialog.
update_queue_display ==
    /\ th[UI].pc \in {"idle", "cq_ask", "cx_msg", "av_missing", "av_dup"}
    /\ UNCHANGED vars

\* ------------------------------------------------------------- Config.set
\* Lines 93-111, as called by the setting widgets (process_tab.py 155-273)
\* and by select_watermark (417-418).
ConfigValues ==
    {<<"denoise_strength", 0>>, <<"denoise_strength", 3>>,
     <<"crf", 23>>, <<"crf", 28>>,
     <<"watermark", "">>, <<"watermark", "wm.png">>}
config_set(key, value) ==
    /\ Called
    /\ calls' = calls + 1
    /\ config' = [config EXCEPT ![key] = value]
    /\ UNCHANGED <<processing_queue, currently_processing, th>>

\* --------------------------------------------------------- specifications
\* Arguments of the slots: every row index and one index past the end; every
\* path already queued and, the paths being interchangeable, the first one
\* that is not.
CallIndices == 0..Len(processing_queue)
QueuedPaths == {At(i).video_path : i \in Indices(processing_queue)}
NextPaths ==
    QueuedPaths \cup
    (IF Paths \ QueuedPaths = {} THEN {} ELSE {Min(Paths \ QueuedPaths)})

UIStep ==
    \/ add_video_rejected
    \/ \E p \in NextPaths : add_video_missing(p)
    \/ add_video_missing_close
    \/ \E p \in NextPaths, c \in Channels : add_video(p, c)
    \/ add_video_duplicate_close
    \/ add_video_autostart
    \/ process_all
    \/ \E i \in CallIndices : process_item_call(i)
    \/ \E i \in CallIndices : remove_item_call(i)
    \/ remove_item_pop
    \/ \E i \in CallIndices : retry_item_call(i)
    \/ retry_item_status
    \/ retry_item_progress
    \/ retry_item_error
    \/ retry_item_dispatch
    \/ \E i \in CallIndices : cancel_item(i)
    \/ cancel_item_close
    \/ clear_queue_call
    \/ clear_queue_reply
    \/ update_queue_display

DispatchStep(t) ==
    \/ process_next(t)
    \/ process_next_find(t)
    \/ process_item_bounds(t)
    \/ process_item_busy(t)
    \/ process_item_pop(t)
    \/ process_item_insert(t)
    \/ process_item_set_busy(t)
    \/ process_item_status(t)
    \/ process_item_progress(t)
    \/ process_item_start(t)

WorkerStep(w) ==
    \/ worker_bounds(w)
    \/ worker_item(w)
    \/ pv_start(w)
    \/ pv_10(w)
    \/ pv_20(w)
    \/ pv_30(w)
    \/ pv_40(w)
    \/ pv_50(w)
    \/ pv_60(w)
    \/ pv_line(w)
    \/ pv_return(w)
    \/ pv_raise(w)
    \/ worker_ok_status(w)
    \/ worker_ok_progress(w)
    \/ worker_ok_output(w)
    \/ worker_fail_status(w)
    \/ worker_fail_progress(w)
    \/ worker_fail_error(w)
    \/ worker_finally(w)
    \/ worker_chain(w)

Next ==
    \/ UIStep
    \/ \E t \in Threads : DispatchStep(t)
    \/ \E w \in Workers : WorkerStep(w)

Spec == Init /\ [][Next]_vars


\* Config.set interleaved with the queue, for the claims about settings
NextCfg ==
    \/ Next
    \/ \E kv \in ConfigValues : config_set(kv[1], kv[2])

SpecCfg == Init /\ [][NextCfg]_vars

\* Submissions only: add_video is the only slot that runs, and the dispatch
\* and worker steps it leads to.  Up to MaxFifoPaths videos are submitted.
FifoPaths == 1..MaxFifoPaths
NextFifoPaths ==
    QueuedPaths \cup
    (IF FifoPaths \ QueuedPaths = {} THEN {} ELSE {Min(FifoPaths \ QueuedPaths)})

\* The steps of a dispatch, without the promote branch of process_item
AutoDispatchStep(t) ==
    \/ process_next(t)
    \/ process_next_find(t)
    \/ process_item_bounds(t)
    \/ process_item_busy(t)
    \/ process_item_set_busy(t)
    \/ process_item_status(t)
    \/ process_item_progress(t)
    \/ process_item_start(t)

NextFifo ==
    \/ \E p \in NextFifoPaths, c \in Channels : add_video(p, c)
    \/ add_video_duplicate_close
    \/ add_video_autostart
    \/ \E t \in Threads : AutoDispatchStep(t)
    \/ \E w \in Workers : WorkerStep(w)

SpecFifo == Init /\ [][NextFifo]_vars

\* Submissions only, with the scheduling the program has: a slot that has
\* started runs to its end on the UI thread, a started worker thread keeps
\* running, and an encoder run ends (it prints at most MaxLines status lines
\* and then exits).  Nothing obliges the user to submit again or to close a
\* report.
Fairness ==
    /\ WF_vars(add_video_autostart)
    /\ \A t \in Threads : WF_vars(AutoDispatchStep(t))
    /\ \A w \in Workers : WF_vars(WorkerStep(w))
SpecFair == Init /\ [][NextFifo]_vars /\ Fairness

\* One video: the speed setting is changed or not, the video is submitted
\* and encoded.
VideoConfigValues == {<<"speed_randomization", 0>>, <<"speed_randomization", 5>>}
NextVideo ==
    \/ \E kv \in VideoConfigValues : config_set(kv[1], kv[2])
    \/ \E c \in Channels : add_video(1, c)
    \/ add_video_duplicate_close
    \/ add_video_autostart
    \/ \E t \in Threads : AutoDispatchStep(t)
    \/ \E w \in Workers : WorkerStep(w)

SpecVideo == Init /\ [][NextVideo]_vars

\* The filter graph: the application starts with a config.json that holds any
\* of these settings (Config.load_config), one video is submitted and encoded.
GraphConfigs ==
    [denoise_strength : {0, 3}, crf : {23}, watermark : {"", "wm.png"},
     speed_randomization : {0, 5}, sharpness : {0, 15},
     zoom_factor : {100, 102}, pixel_shift : {0, 1}]
InitGraph ==
    /\ processing_queue = <<>>
    /\ currently_processing = FALSE
    /\ th = [t \in Threads |-> Idle]
    /\ config \in GraphConfigs
    /\ calls = 0

NextGraph ==
    \/ \E c \in Channels : add_video(1, c)
    \/ add_video_duplicate_close
    \/ add_video_autostart
    \/ \E t \in Threads : AutoDispatchStep(t)
    \/ \E w \in Workers : WorkerStep(w)

SpecGraph == InitGraph /\ [][NextGraph]_vars

\* Promotion: the queue holds three jobs, one of them just dispatched (its
\* status is Processing, the flag is set, its worker thread was started),
\* the others Queued, Completed or Failed, as add_video, process_item and
\* retry_item leave them: for example add A, B, C; A fails and B is
\* dispatched; retry A gives Queued, Processing, Queued.  One more slot runs:
\* process_item on some row.
Settled(video_path, status) ==
    [QueueItem(video_path, "", DefaultConfig) EXCEPT
        !.status = status,
        !.progress = IF status = "Completed" THEN 100 ELSE 0,
        !.output_path = IF status = "Completed" THEN video_path ELSE None,
        !.error = IF status = "Failed" THEN "RuntimeError" ELSE NoError]

InitPromote ==
    /\ \E k \in 1..3, c \in Channels :
       \E st \in [1..3 -> {"Queued", "Completed", "Failed"}] :
          processing_queue =
             [i \in 1..3 |->
                 IF i = k
                 THEN [QueueItem(i, c, DefaultConfig) EXCEPT !.status = "Processing"]
                 ELSE Settled(i, st[i])]
    /\ currently_processing = TRUE
    /\ \E k \in 1..3 :
          /\ processing_queue[k].status = "Processing"
          /\ th = [t \in Threads |->
                     IF t = 1 THEN [Idle EXCEPT !.pc = "w_bounds", !.index = k - 1]
                     ELSE Idle]
    /\ config = DefaultConfig
    /\ calls = MaxCalls - 1

NextPromote ==
    \/ \E i \in CallIndices : process_item_call(i)
    \/ \E t \in Threads : DispatchStep(t)
    \/ \E w \in Workers : WorkerStep(w)

SpecPromote == InitPromote /\ [][NextPromote]_vars

\* ------------------------------------------------------- notions of claims
\* Positions of a thread between passing the busy check of process_item
\* (line 593) and clearing the flag (line 668): a dispatch or an encode is
\* under way.
DispatchPcs == {"pi_set", "pi_status", "pi_prog", "pi_start"}
EncodePcs ==
    {"w_bounds", "w_item", "pv_start", "pv_10", "pv_20", "pv_30", "pv_40",
     "pv_50", "pv_60", "pv_run"}
OutcomePcs ==
    {"w_ok_status", "w_ok_prog", "w_ok_out",
     "w_fail_status", "w_fail_prog", "w_fail_err", "w_fin"}
ChainPcs ==
    {"w_fin_q", "pn", "pn_find", "pi_bounds", "pi_cp", "pi_pop", "pi_ins"}
InFlight == {t \in Threads : th[t].pc \in DispatchPcs \cup EncodePcs \cup OutcomePcs}

\* The job with a given input path, while it is in the queue
HasJob(q, p) == \E i \in 1..Len(q) : q[i].video_path = p
Job(q, p) == q[CHOOSE i \in 1..Len(q) : q[i].video_path = p]
PosOf(q, p) == CHOOSE i \in 1..Len(q) : q[i].video_path = p

\* Thread t takes a step
Steps(t) == th'[t] # th[t]

\* C1: at most one job of the queue has status Processing, in every
\* reachable state.
C1_SingleFlight == Cardinality(ProcessingIndices(processing_queue)) <= 1

\* C2: the busy check and the transition to Active are one indivisible step:
\* at most one thread is past the busy check of process_item and short of
\* clearing the flag, so no second dispatch or encode is under way.
C2_AtomicDispatch == Cardinality(InFlight) <= 1

\* C3: a job's status changes only Queued->Processing by the dispatch step of
\* process_item, Processing->Completed or Failed by the worker that encodes
\* this job, and Failed->Queued by retry_item.
LifecycleEdge(p) ==
    LET from == Job(processing_queue, p).status
        to == Job(processing_queue', p).status
    IN  \/ from = to
        \/ /\ from = "Queued" /\ to = "Processing"
           /\ \E t \in Threads : th[t].pc = "pi_status" /\ Steps(t)
        \/ /\ from = "Processing" /\ to = "Completed"
           /\ \E w \in Workers :
                 th[w].pc = "w_ok_status" /\ Steps(w) /\ th[w].path = p
        \/ /\ from = "Processing" /\ to = "Failed"
           /\ \E w \in Workers :
                 th[w].pc = "w_fail_status" /\ Steps(w) /\ th[w].path = p
        \/ /\ from = "Failed" /\ to = "Queued"
           /\ th[UI].pc = "rt_status" /\ Steps(UI)
C3_Lifecycle ==
    [][\A p \in Paths :
          HasJob(processing_queue, p) /\ HasJob(processing_queue', p)
              => LifecycleEdge(p)]_vars

\* C4: an accepted add_video appends the job at the end, Queued with progress
\* 0, and if no job is Active (no job is Processing and no worker thread is
\* alive) the handler goes on to dispatch.
C4_SubmitDispatches ==
    [][/\ (th[UI].pc = "idle" /\ th'[UI].pc = "av_check")
           => /\ Len(processing_queue') = Len(processing_queue) + 1
              /\ SubSeq(processing_queue', 1, Len(processing_queue)) = processing_queue
              /\ processing_queue'[Len(processing_queue')].status = "Queued"
              /\ processing_queue'[Len(processing_queue')].progress = 0
       /\ (th[UI].pc = "av_check" /\ Steps(UI)
              /\ ProcessingIndices(processing_queue) = {}
              /\ \A w \in Workers : th[w].pc = "idle")
           => th'[UI].pc = "pn"]_vars

\* C5: when the completion path of a worker ends while a Queued job remains,
\* the flag was cleared and the path has dispatched exactly one job: it ends
\* by starting the next worker, with exactly one job Active, unless another
\* dispatch has taken the flag meanwhile.
C5_AutoChain ==
    [][\A w \in Workers :
          (th[w].pc \in ChainPcs \cup DispatchPcs /\ Steps(w)
             /\ th'[w].pc \in {"idle", "w_bounds"})
          => \/ /\ QueuedIndices(processing_queue') = {}
                /\ th'[w].pc = "idle"
             \/ /\ th'[w].pc = "idle"
                /\ currently_processing'
             \/ /\ th'[w].pc = "w_bounds"
                /\ Cardinality(ProcessingIndices(processing_queue')) = 1]_vars

\* C6: the steps that record a failure change only the job the worker
\* encodes, and when they are done that job is Failed with the error kept.
OthersUnchanged(p) ==
    /\ Len(processing_queue') = Len(processing_queue)
    /\ \A i \in 1..Len(processing_queue) :
          processing_queue[i].video_path # p
              => processing_queue'[i] = processing_queue[i]
C6_FailureIsolation ==
    [][\A w \in Workers :
          (th[w].pc \in {"w_fail_status", "w_fail_prog", "w_fail_err"} /\ Steps(w))
          => /\ OthersUnchanged(th[w].path)
             /\ th'[w].pc = "w_fin" /\ th[w].path # None
                   => /\ HasJob(processing_queue', th[w].path)
                      /\ Job(processing_queue', th[w].path).status = "Failed"
                      /\ Job(processing_queue', th[w].path).error # NoError]_vars

\* C7: the settings a worker has used once the encoder command is built are
\* those in force when add_video accepted the job it encodes.
SettingsOf(cfg, ch) ==
    [denoise_strength |-> cfg.denoise_strength, crf |-> cfg.crf,
     watermark |-> IF ch # "" THEN cfg.watermark ELSE ""]
Used(w) ==
    [denoise_strength |-> th[w].used.denoise_strength, crf |-> th[w].used.crf,
     watermark |-> th[w].used.watermark]
C7_Snapshot ==
    \A w \in Workers :
        th[w].pc = "pv_run" => Used(w) = SettingsOf(th[w].snap, th[w].ch)

\* C8: while a worker encodes a job, no step of the UI thread changes that
\* job's status, progress, output path or error.
Encoding(p) ==
    \E w \in Workers : th[w].path = p /\ th[w].pc \in EncodePcs \cup OutcomePcs
C8_SingleWriter ==
    [][\A p \in Paths :
          (Steps(UI) /\ Encoding(p)
             /\ HasJob(processing_queue, p) /\ HasJob(processing_queue', p))
          => Job(processing_queue', p) = Job(processing_queue, p)]_vars

\* C9: whenever the timer may run update_queue_display, the rows it reads are
\* whole: a Completed row has its output path and progress 100, a Failed row
\* has its error.
WholeRow(r) ==
    /\ r.status = "Completed" => r.output_path # None /\ r.progress = 100
    /\ r.status = "Failed" => r.error # NoError
C9_AtomicRead ==
    ENABLED update_queue_display
        => \A i \in 1..Len(processing_queue) : WholeRow(Rows(processing_queue)[i])

\* The job retry_item was called on is still at the index the slot holds
RetryTarget ==
    /\ th[UI].path # None
    /\ InRange(th[UI].index)
    /\ At(th[UI].index).video_path = th[UI].path

C12_RetryOnlyFailed ==
    [][\A i \in Indices(processing_queue) :
          (th[UI].pc = "idle" /\ th'[UI].pc = "rt_status" /\ th'[UI].index = i)
              => At(i).status = "Failed"]_vars

\* C13: cancel_item reports that cancelling is not supported (its message box
\* is what the slot does) and changes nothing: neither opening nor closing the
\* box changes the queue, the flag or a worker thread, so an Active job stays
\* Processing with its progress; and while the box is open a worker that is
\* encoding or recording an outcome can always take its next step.
C13_CancelStep ==
    (Steps(UI) /\ (th[UI].pc = "cx_msg" \/ th'[UI].pc = "cx_msg"))
        => /\ UNCHANGED <<processing_queue, currently_processing>>
           /\ \A w \in Workers : th'[w] = th[w]
C13_Cancel ==
    /\ [][C13_CancelStep]_vars
    /\ [](th[UI].pc = "cx_msg"
            => \A w \in Workers :
                  th[w].pc \in EncodePcs \cup OutcomePcs => ENABLED WorkerStep(w))

\* The box of cancel_item is open for the job a worker is encoding
C13_Witness ==
    /\ th[UI].pc = "cx_msg"
    /\ InRange(th[UI].index)
    /\ At(th[UI].index).status = "Processing"
    /\ At(th[UI].index).progress = 30
    /\ \E w \in Workers : th[w].pc \in EncodePcs /\ th[w].index = th[UI].index

\* C14: with submissions only (no promote, no remove, no retry) the queue is
\* in submission order, nothing is reordered, and whenever a job becomes
\* Processing it is the Queued job at the earliest position, no other job is
\* Processing and every job before it is Completed or Failed: the jobs are
\* dispatched in the order submitted, one after the other.
FifoDispatch(p) ==
    LET i == PosOf(processing_queue, p)
    IN  /\ i - 1 = Min(QueuedIndices(processing_queue))
        /\ ProcessingIndices(processing_queue) = {}
        /\ \A j \in 1..(i - 1) :
              processing_queue[j].status \in {"Completed", "Failed"}
Without(q, p) == SelectSeq(q, LAMBDA item : item.video_path # p)
C15_Promote ==
    [][/\ (th[UI].pc = "pi_ins" /\ Steps(UI) /\ th[UI].held.status = "Queued")
           => LET p == th[UI].held.video_path
              IN  /\ HasJob(processing_queue', p)
                  /\ Without(processing_queue', p) = processing_queue
                  /\ ProcessingIndices(processing_queue) # {}
                        => PosOf(processing_queue', p) - 1 =
                              Min(ProcessingIndices(processing_queue)) + 1
                  /\ PosOf(processing_queue', p) - 1 =
                        Min(QueuedIndices(processing_queue'))
       /\ (th[UI].pc = "pi_cp" /\ Steps(UI) /\ ~currently_processing)
           => th'[UI].pc = "pi_set"]_vars

\* C16: while a job is Processing, every step leaves its progress an integer
\* in 0..100 that is not lower than before, the steps that record a value
\* computed from a time= status line included.
C16_Progress ==
    [][\A i \in 1..Len(processing_queue) :
          LET p == processing_queue[i].video_path
          IN  (/\ processing_queue[i].status = "Processing"
               /\ HasJob(processing_queue', p)
               /\ Job(processing_queue', p).status = "Processing")
              => /\ Job(processing_queue', p).progress \in 0..100
                 /\ Job(processing_queue', p).progress >= processing_queue[i].progress]_vars

\* C17: between slots of the UI thread, a job with an output path is
\* Completed and a job with an error is Failed.
C17_FieldsByStatus ==
    th[UI].pc = "idle"
        => \A i \in 1..Len(processing_queue) :
              /\ processing_queue[i].output_path # None
                    => processing_queue[i].status = "Completed"
              /\ processing_queue[i].error # NoError
                    => processing_queue[i].status = "Failed"

\* The job a worker encodes is still at the index the worker holds
WorkerTarget(w) ==
    /\ InRange(th[w].index)
    /\ At(th[w].index).video_path = th[w].path

C19_FailedEncodeCleanup ==
    [][\A w \in Workers :
          /\ (th[w].pc = "pv_run" /\ th'[w].exc = "RuntimeError")
                => /\ th'[w].out = "none"
                   /\ th'[w].thumb = "none"
                   /\ UNCHANGED processing_queue
          /\ (th[w].pc = "w_fail_status" /\ Steps(w)
                 /\ th[w].exc = "RuntimeError")
                => th[w].out = "none"]_vars

\* C20 as stated: once the command is built, a known duration D (0.0
\* included) is the value of the -t option.
C20_CapWheneverKnown ==
    \A w \in Workers :
        (th[w].pc = "pv_run" /\ th[w].dur # NoDuration)
            => th[w].used.cap = th[w].dur

\* C20, amended: once the command is built, a known duration D greater than
\* zero is the value of the -t option, with and without the setpts stage in
\* the graph; with no duration or 0.0 the command has no -t option.
C20_CapWhenPositive ==
    \A w \in Workers :
        th[w].pc = "pv_run"
            => /\ (th[w].dur # NoDuration /\ th[w].dur > 0)
                     => th[w].used.cap = th[w].dur
               /\ (th[w].dur = NoDuration \/ th[w].dur = 0)
                     => th[w].used.cap = NoDuration

\* A command with the setpts stage in the graph and -t equal to the duration
C20_Witness ==
    \E w \in Workers :
        /\ th[w].pc = "pv_run"
        /\ th[w].used.speed
        /\ th[w].dur = 2
        /\ th[w].used.cap = 2

\* The stages of a graph, by name
StageNames(g) == [i \in 1..Len(g) |-> g[i].stage]

\* C21: once the command is built, the first stage of the graph reads the
\* primary video input 0:v, every later stage reads the output label of the
\* stage before it, and -map names the output label of the last stage,
\* whichever optional stages are in the graph.
C21_LabelContinuity ==
    \A w \in Workers :
        th[w].pc = "pv_run"
            => LET g == th[w].filter_parts
               IN  /\ Len(g) >= 1
                   /\ g[1].input = "0:v"
                   /\ \A i \in 2..Len(g) : g[i].input = g[i - 1].output
                   /\ th[w].used.map = g[Len(g)].output

\* A graph with denoise, overlay, speed and pixel shift left out and sharpen
\* and zoom kept, mapped to the encoder
C21_Witness ==
    \E w \in Workers :
        /\ th[w].pc = "pv_run"
        /\ StageNames(th[w].filter_parts) =
              <<"canvas", "saturation", "brightness", "sharpen", "zoom">>
        /\ th[w].used.map = "v6"

\* C22: no two stages of the graph, while it is built and when it is
\* complete, have the same output label, whichever optional stages are in it.
C22_UniqueLabels ==
    \A w \in Workers :
        LET g == th[w].filter_parts
        IN  \A i, j \in 1..Len(g) : i # j => g[i].output # g[j].output

\* A complete graph with every optional stage but denoise
C22_Witness ==
    \E w \in Workers :
        /\ th[w].pc = "pv_run"
        /\ StageNames(th[w].filter_parts) =
              <<"canvas", "saturation", "brightness", "sharpen", "overlay",
                "speed", "zoom", "pixel_shift">>

\* The inclusion conditions as the claim C23 states them, for the settings
\* in force and the watermark as found at line 182
C23_Holds(stage, w) ==
    CASE stage = "denoise" -> config.denoise_strength > 0
      [] stage = "sharpen" -> config.sharpness > 0
      [] stage = "overlay" -> th[w].used.watermark # "" /\ th[w].used.overlay
      [] stage = "speed" -> config.speed_randomization > 0
      [] stage = "zoom" -> config.zoom_factor > 100
      [] stage = "pixel_shift" -> config.pixel_shift > 0
      [] OTHER -> TRUE

\* C23: the complete graph is, in the fixed order canvas, color and
\* brightness, denoise, sharpen, overlay, speed, zoom, pixel shift, exactly
\* the stages whose inclusion condition holds.
C23_StageList ==
    \A w \in Workers :
        th[w].pc = "pv_run"
            => StageNames(th[w].filter_parts) =
                  SelectSeq(StageOrder, LAMBDA stage : C23_Holds(stage, w))

\* denoise = 0 and sharpness = 0: the graph has neither stage, and has the
\* other optional ones
C23_Witness ==
    \E w \in Workers :
        /\ th[w].pc = "pv_run"
        /\ config.denoise_strength = 0
        /\ config.sharpness = 0
        /\ StageNames(th[w].filter_parts) =
              <<"canvas", "saturation", "brightness", "overlay", "speed",
                "zoom", "pixel_shift">>

\* C24: once the command is built, the watermark is an input of the command
\* exactly when the graph has the overlay stage.
C24_OverlayInput ==
    \A w \in Workers :
        th[w].pc = "pv_run"
            => (th[w].used.wm_input
                  <=> \E i \in 1..Len(th[w].filter_parts) :
                         th[w].filter_parts[i].stage = "overlay")

C26_NoDurationFallback ==
    [][\A w \in Workers :
          (th[w].pc = "pv_run" /\ ~Truthy(th[w].dur))
             => /\ th[w].used.cap = NoDuration
                /\ th[w].exc = NoError
                /\ (th'[w].lines = th[w].lines + 1 /\ InRange(th[w].index))
                      => processing_queue'[th[w].index + 1].progress \in 60..90]_vars

\* C27: every step of a worker between reading its job and clearing the flag
\* changes no job but the one it encodes, and when the outcome is recorded
\* that job, if still in the queue, is Completed or Failed.
C27_OwnJobOnly ==
    [][\A w \in Workers :
          (Steps(w) /\ th[w].pc \in EncodePcs \cup OutcomePcs
             /\ th[w].path # None)
          => /\ OthersUnchanged(th[w].path)
             /\ (th'[w].pc = "w_fin" /\ HasJob(processing_queue', th[w].path))
                   => Job(processing_queue', th[w].path).status
                         \in {"Completed", "Failed"}]_vars

\* C28: every job accepted by add_video is eventually Completed or Failed,
\* with no slot called but add_video.
C28_EventuallyDone ==
    \A p \in FifoPaths :
        [](HasJob(processing_queue, p)
             => <>(/\ HasJob(processing_queue, p)
                   /\ Job(processing_queue, p).status \in {"Completed", "Failed"}))

\* C29: in every reachable state where currently_processing is False no job
\* has status Processing.
C29_FlagAgrees ==
    ~currently_processing => ProcessingIndices(processing_queue) = {}

\* A step of add_video past the duplicate check: what is appended was not in
\* the queue; what is reported is in the queue, and neither the call nor
\* closing the report changes the queue or the flag.
DuplicateStep ==
    /\ (th[UI].pc = "idle" /\ th'[UI].pc = "av_check")
          => ~HasJob(processing_queue,
                     processing_queue'[Len(processing_queue')].video_path)
    /\ (Steps(UI) /\ (th[UI].pc = "av_dup" \/ th'[UI].pc = "av_dup"))
          => /\ UNCHANGED <<processing_queue, currently_processing>>
             /\ (th'[UI].pc = "av_dup"
                    => HasJob(processing_queue, th'[UI].path))
RejectedUnchanged == [][DuplicateStep]_vars

\* C30: in every reachable state no two jobs of the queue have the same
\* input path.
C30_NoDuplicates ==
    \A i, j \in 1..Len(processing_queue) :
        i # j => processing_queue[i].video_path # processing_queue[j].video_path

\* C10: remove_item on a Processing job changes nothing; on a Queued, Failed
\* or Completed job its pop removes exactly that job, which is not Active,
\* and keeps the others in order.
C10_Remove ==
    [][/\ (th[UI].pc = "idle" /\ th'[UI].pc = "rm_pop")
           => Job(processing_queue, th'[UI].path).status # "Processing"
       /\ (th[UI].pc = "rm_pop" /\ Steps(UI))
           => /\ HasJob(processing_queue, th[UI].path)
              /\ Job(processing_queue, th[UI].path).status # "Processing"
              /\ processing_queue' =
                    Pop(processing_queue, PosOf(processing_queue, th[UI].path) - 1)]_vars

====
